---------------------------- MODULE Spec2Model ----------------------------
(***************************************************************************)
(* Interpreter / virtual-environment resolution of LSP-pyright (plugin.py). *)
(*                                                                         *)
(* Strings are modelled as sequences of chunks.  A path is the sequence of *)
(* its components (the separator is implicit, <<>> is the filesystem root  *)
(* and also the empty string); the chunks " " and "\n" are whitespace.     *)
(* An Optional[str] is a record [some, val]; None has some = FALSE.        *)
(***************************************************************************)
EXTENDS Integers, Sequences, FiniteSets, TLC

VARIABLES
    platform,           \* sublime.platform()
    fs,                 \* filesystem: [files, dirs, unreadable]
    USER_HOME,          \* module constant computed at import (line 32)
    \* ---- on_pre_start / resolve_python_path_from_venv ----
    pc,                 \* position of the on_pre_start call
    settings,           \* configuration.settings["python.pythonPath"]
    workspace_folders,  \* the workspace_folders argument
    ruleIdx,            \* index of the for loop over venv_config_files
    result,             \* return value of resolve_python_path_from_venv
    exc,                \* exception propagating out of the call ("" = none)
    log,                \* warnings printed
    runs,               \* external commands invoked, in order
    fsQueried,          \* the call has queried the filesystem
    searched,           \* the conventional subfolder search was entered
    \* ---- _find_venv ----
    walkPc, start, root, venv, iters,
    \* ---- is_project_root and its lru_cache ----
    cache,              \* entries [key, value], least recently used first
    lastCall            \* the last is_project_root call: key, value, cache hit,
                        \* whether an entry was dropped for it

vars == <<platform, fs, USER_HOME, pc, settings, workspace_folders, ruleIdx,
          result, exc, log, runs, fsQueried, searched,
          walkPc, start, root, venv, iters, cache, lastCall>>

resolverVars == <<pc, settings, workspace_folders, ruleIdx, result, exc, log,
                  runs, fsQueried, searched>>
walkVars == <<walkPc, start, root, venv, iters>>
cacheVars == <<cache, lastCall>>
envVars == <<platform, fs, USER_HOME>>

-----------------------------------------------------------------------------
(* Bounds of the model *)

MaxFolders == 2      \* longest workspace-folder list handed to on_pre_start
MaxDepth == 3        \* depth of the deepest directory of the walked chain
MaxMarked == 3       \* directories of the chain that hold a venv or a marker
\* functools.lru_cache keeps 128 entries by default (line 35 gives no maxsize);
\* the model scales the capacity down so that a handful of paths fills it
maxsize == 2

-----------------------------------------------------------------------------
(* Optional values, strings, paths *)

None == [some |-> FALSE, val |-> <<>>]
Some(v) == [some |-> TRUE, val |-> v]

\* Python truthiness of an Optional[str]: None and "" are falsy
Truthy(v) == v.some /\ Len(v.val) > 0

Whitespace == {" ", "\n"}

RECURSIVE lstrip(_)
lstrip(s) == IF s # <<>> /\ Head(s) \in Whitespace THEN lstrip(Tail(s)) ELSE s

RECURSIVE rstrip(_)
rstrip(s) ==
    IF s # <<>> /\ s[Len(s)] \in Whitespace
    THEN rstrip(SubSeq(s, 1, Len(s) - 1)) ELSE s

strip(s) == rstrip(lstrip(s))

join(a, b) == a \o b

\* mutant: the parent of a path is the path itself
dirname_no_progress(p) == p

dirname(p) == IF p = <<>> THEN <<>> ELSE SubSeq(p, 1, Len(p) - 1)

exists(p) == p \in fs.files \cup fs.dirs
isfile(p) == p \in fs.files

\* names os.listdir returns for a readable directory
listdir(d) ==
    {p[Len(d) + 1] : p \in {q \in fs.files \cup fs.dirs :
                              Len(q) > Len(d) /\ SubSeq(q, 1, Len(d)) = d}}

Platforms == {"linux", "windows"}


-----------------------------------------------------------------------------
(* Filesystem states the resolver is run against *)

W1 == <<"ws1">>
W2 == <<"ws2">>
EnvRoot == <<"envs", "e1">>

Cfg == <<"pyvenv.cfg">>
BinPosix == <<"bin", "python">>
BinWin == <<"Scripts", "python.exe">>

ConfigFiles == {"Pipfile", "poetry.lock", ".python-version"}

\* contents of the children "venv" and ".venv" of the first folder
VenvChoices == {{}, {Cfg}, {Cfg, BinPosix}, {Cfg, BinWin}}
DotVenvChoices == {{}, {BinPosix}, {Cfg, BinPosix, BinWin}}
\* contents of the children "env" and "py3"
EnvChildChoices == {{}, {Cfg, BinPosix}}
Py3ChildChoices == {{}, {Cfg, BinPosix, BinWin}}
\* contents of the environment root an external command may print
EnvChoices == {{}, {BinPosix, BinWin}}
FolderStatus == {"ok", "missing", "unreadable"}

Under(dir, child, content) == {join(dir, <<child>> \o f) : f \in content}

\* W2 is a complete project of its own: only its position in the list decides
\* whether it is looked at
W2Files ==
    {join(W2, <<"Pipfile">>)} \cup Under(W2, "venv", {Cfg, BinPosix, BinWin})

ResolverFs(markers, cv, cdv, ce, cp, envc, status) ==
    [files |->
        (IF status = "missing" THEN {}
         ELSE {join(W1, <<m>>) : m \in markers}
              \cup Under(W1, "venv", cv) \cup Under(W1, ".venv", cdv)
              \cup Under(W1, "env", ce) \cup Under(W1, "py3", cp))
        \cup W2Files \cup {join(EnvRoot, f) : f \in envc},
     dirs |-> (IF status = "missing" THEN {} ELSE {W1}) \cup {W2, EnvRoot},
     unreadable |-> IF status = "unreadable" THEN {W1} ELSE {}]

ResolverFsSet ==
    {ResolverFs(m, cv, cdv, ce, cp, envc, st) :
        m \in SUBSET ConfigFiles, cv \in VenvChoices, cdv \in DotVenvChoices,
        ce \in EnvChildChoices, cp \in Py3ChildChoices, envc \in EnvChoices,
        st \in FolderStatus}

\* values of the "python.pythonPath" setting: unset, empty, explicit
PythonPathValues == {None, Some(<<>>), Some(<<"usr", "bin", "python3">>)}

\* the lists of distinct folders of at most n folders
RECURSIVE ListsUpTo(_, _)
ListsUpTo(S, n) ==
    IF n = 0 THEN {<<>>}
    ELSE LET shorter == ListsUpTo(S, n - 1)
             Fresh(s) == {y \in S : \A i \in DOMAIN s : s[i] # y}
         IN shorter \cup UNION {{Append(s, x) : x \in Fresh(s)} : s \in shorter}

FolderLists == ListsUpTo({W1, W2}, MaxFolders)

\* what a successful external command may print
Stdouts ==
    { <<"envs", "e1", "\n">>,
      <<" ", "envs", "e1", "bin", "python", "\n">>,
      <<"\n">> }

-----------------------------------------------------------------------------
(* resolve_python_path_from_venv, called from on_pre_start *)

\* lines 200-206
binary_from_python_path(path) ==
    LET binary_path == IF platform = "windows"
                       THEN join(path, <<"Scripts", "python.exe">>)
                       ELSE join(path, <<"bin", "python">>)
    IN IF isfile(binary_path) THEN Some(binary_path) ELSE None

\* lines 217-221: config file, command, post-processing
venv_config_files ==
    << [config_file |-> "Pipfile", command |-> "pipenv", post |-> FALSE],
       [config_file |-> "poetry.lock", command |-> "poetry", post |-> TRUE],
       [config_file |-> ".python-version", command |-> "pyenv", post |-> FALSE] >>

\* line 238
PostProcess(rule, python_path) ==
    IF rule.post THEN binary_from_python_path(python_path) ELSE Some(python_path)

\* lines 248-250
binary_from_venv(dir, child) ==
    IF isfile(join(dir, <<child, "pyvenv.cfg">>))
    THEN binary_from_python_path(join(dir, <<child>>))
    ELSE None

workspace_folder == workspace_folders[1]

Return(value) ==
    /\ result' = value
    /\ pc' = "returned"

Raise(name) ==
    /\ exc' = name
    /\ pc' = "raised"

\* line 88: on_pre_start calls the resolver with the configured settings
OnPreStart(python_path, folders) ==
    /\ pc = "idle"
    /\ settings' = python_path
    /\ workspace_folders' = folders
    /\ pc' = "override"
    /\ UNCHANGED <<ruleIdx, result, exc, log, runs, fsQueried, searched>>
    /\ UNCHANGED <<envVars, walkVars, cacheVars>>

\* mutant: the override is honoured only after the folder list is known to be
\* non-empty
CheckOverrideAfterFolders ==
    /\ pc = "override"
    /\ IF Truthy(settings) /\ workspace_folders # <<>> THEN Return(settings)
       ELSE pc' = "folders" /\ UNCHANGED result
    /\ UNCHANGED <<settings, workspace_folders, ruleIdx, exc, log, runs,
                   fsQueried, searched>>
    /\ UNCHANGED <<envVars, walkVars, cacheVars>>

\* lines 208-210
CheckOverride ==
    /\ pc = "override"
    /\ IF Truthy(settings) THEN Return(settings)
       ELSE pc' = "folders" /\ UNCHANGED result
    /\ UNCHANGED <<settings, workspace_folders, ruleIdx, exc, log, runs,
                   fsQueried, searched>>
    /\ UNCHANGED <<envVars, walkVars, cacheVars>>

\* lines 212-214
CheckFolders ==
    /\ pc = "folders"
    /\ IF workspace_folders = <<>> THEN Return(None)
       ELSE pc' = "rules" /\ UNCHANGED result
    /\ UNCHANGED <<settings, workspace_folders, ruleIdx, exc, log, runs,
                   fsQueried, searched>>
    /\ UNCHANGED <<envVars, walkVars, cacheVars>>

InRuleLoop == pc = "rules" /\ ruleIdx \in 1..Len(venv_config_files)

\* mutant: the marker file is looked up in the last folder of the list
MarkerFoundInLastFolder ==
    isfile(join(workspace_folders[Len(workspace_folders)],
                <<venv_config_files[ruleIdx].config_file>>))

MarkerFound ==
    isfile(join(workspace_folder, <<venv_config_files[ruleIdx].config_file>>))

\* the for loop of line 231 moves on; after the last rule control reaches line 248
NextRule ==
    /\ ruleIdx' = ruleIdx + 1
    /\ pc' = IF ruleIdx + 1 > Len(venv_config_files) THEN "subfolder" ELSE "rules"

\* line 233, condition false
RuleMarkerAbsent ==
    /\ InRuleLoop
    /\ ~MarkerFound
    /\ fsQueried' = TRUE
    /\ NextRule
    /\ UNCHANGED <<settings, workspace_folders, result, exc, log, runs, searched>>
    /\ UNCHANGED <<envVars, walkVars, cacheVars>>

\* lines 235-238: the command exits with status 0
RunSucceeds(stdout) ==
    /\ InRuleLoop
    /\ MarkerFound
    /\ LET rule == venv_config_files[ruleIdx]
           python_path == strip(stdout)
       IN /\ runs' = Append(runs, [config_file |-> rule.config_file,
                                   outcome |-> "ok", stdout |-> stdout])
          /\ fsQueried' = TRUE
          /\ Return(PostProcess(rule, python_path))
    /\ UNCHANGED <<settings, workspace_folders, ruleIdx, exc, log, searched>>
    /\ UNCHANGED <<envVars, walkVars, cacheVars>>

\* mutant: a failing command warns and ends the resolution with absent
RunFailsAborts(outcome) ==
    /\ InRuleLoop
    /\ MarkerFound
    /\ LET rule == venv_config_files[ruleIdx]
       IN /\ runs' = Append(runs, [config_file |-> rule.config_file,
                                   outcome |-> outcome, stdout |-> <<>>])
          /\ log' = Append(log, [config_file |-> rule.config_file,
                                 warning |-> outcome])
    /\ fsQueried' = TRUE
    /\ Return(None)
    /\ UNCHANGED <<settings, workspace_folders, ruleIdx, exc, searched>>
    /\ UNCHANGED <<envVars, walkVars, cacheVars>>

\* a command that does not succeed: record it, warn, go on with the loop
RunFails(outcome) ==
    /\ InRuleLoop
    /\ MarkerFound
    /\ LET rule == venv_config_files[ruleIdx]
       IN /\ runs' = Append(runs, [config_file |-> rule.config_file,
                                   outcome |-> outcome, stdout |-> <<>>])
          /\ log' = Append(log, [config_file |-> rule.config_file,
                                 warning |-> outcome])
    /\ fsQueried' = TRUE
    /\ NextRule
    /\ UNCHANGED <<settings, workspace_folders, result, exc, searched>>
    /\ UNCHANGED <<envVars, walkVars, cacheVars>>

\* lines 239-240
RunNotFound == RunFails("FileNotFoundError")

\* lines 241-246
RunNonZero == RunFails("CalledProcessError")

\* lines 253-256
ConventionalVenv ==
    /\ pc = "subfolder"
    /\ searched' = TRUE
    /\ fsQueried' = TRUE
    /\ LET b1 == binary_from_venv(workspace_folder, "venv")
           b2 == binary_from_venv(workspace_folder, ".venv")
       IN IF b1.some THEN Return(b1)
          ELSE IF b2.some THEN Return(b2)
          ELSE pc' = "listdir" /\ UNCHANGED result
    /\ UNCHANGED <<settings, workspace_folders, ruleIdx, exc, log, runs>>
    /\ UNCHANGED <<envVars, walkVars, cacheVars>>

\* the orders in which os.listdir may return the names
RECURSIVE Orders(_)
Orders(S) ==
    IF S = {} THEN {<<>>}
    ELSE UNION {{<<x>> \o o : o \in Orders(S \ {x})} : x \in S}

\* lines 258-265 over a listing
RECURSIVE ScanChildren(_, _, _)
ScanChildren(dir, order, i) ==
    IF i > Len(order) THEN None
    ELSE IF order[i] \in {"venv", ".venv"} THEN ScanChildren(dir, order, i + 1)
    ELSE LET binary == binary_from_venv(dir, order[i])
         IN IF binary.some THEN binary ELSE ScanChildren(dir, order, i + 1)

\* line 258: os.listdir raises for a folder that cannot be listed
ListdirRaises ==
    /\ pc = "listdir"
    /\ \/ workspace_folder \notin fs.dirs /\ Raise("FileNotFoundError")
       \/ workspace_folder \in fs.unreadable /\ Raise("PermissionError")
    /\ fsQueried' = TRUE
    /\ UNCHANGED <<settings, workspace_folders, ruleIdx, result, log, runs, searched>>
    /\ UNCHANGED <<envVars, walkVars, cacheVars>>

\* lines 258-265
ListChildren ==
    /\ pc = "listdir"
    /\ workspace_folder \in fs.dirs \ fs.unreadable
    /\ \E order \in Orders(listdir(workspace_folder)) :
         Return(ScanChildren(workspace_folder, order, 1))
    /\ fsQueried' = TRUE
    /\ UNCHANGED <<settings, workspace_folders, ruleIdx, exc, log, runs, searched>>
    /\ UNCHANGED <<envVars, walkVars, cacheVars>>

\* lines 88-91: `or "python"`, then the setting is written back
OnPreStartFinish ==
    /\ pc = "returned"
    /\ settings' = IF Truthy(result) THEN result ELSE Some(<<"python">>)
    /\ pc' = "done"
    /\ UNCHANGED <<workspace_folders, ruleIdx, result, exc, log, runs,
                   fsQueried, searched>>
    /\ UNCHANGED <<envVars, walkVars, cacheVars>>

-----------------------------------------------------------------------------
(* Specification of one on_pre_start call *)

WalkIdle ==
    /\ walkPc = "idle"
    /\ start = <<>>
    /\ root = <<>>
    /\ venv = None
    /\ iters = 0

CacheEmpty ==
    /\ cache = <<>>
    /\ lastCall = [key |-> <<>>, value |-> FALSE, hit |-> FALSE,
                   evicted |-> FALSE, valid |-> FALSE]

ResolverIdle ==
    /\ pc = "idle"
    /\ settings = None
    /\ workspace_folders = <<>>
    /\ ruleIdx = 1
    /\ result = None
    /\ exc = ""
    /\ log = <<>>
    /\ runs = <<>>
    /\ fsQueried = FALSE
    /\ searched = FALSE

Init ==
    /\ platform \in Platforms
    /\ fs \in ResolverFsSet
    /\ USER_HOME = <<"home">>
    /\ ResolverIdle
    /\ WalkIdle
    /\ CacheEmpty

Next ==
    \/ \E python_path \in PythonPathValues, folders \in FolderLists :
         OnPreStart(python_path, folders)
    \/ CheckOverride
    \/ CheckFolders
    \/ RuleMarkerAbsent
    \/ \E stdout \in Stdouts : RunSucceeds(stdout)
    \/ RunNotFound
    \/ RunNonZero
    \/ ConventionalVenv
    \/ ListdirRaises
    \/ ListChildren
    \/ OnPreStartFinish

Spec == Init /\ [][Next]_vars

-----------------------------------------------------------------------------
(* is_project_root and the lru_cache around it *)

\* lines 22-30
ROOT_FILES ==
    {".git", "poetry.lock", "setup.py", "dev-requirements.txt",
     "requirements-dev.txt", "requirements.txt", "test-requirements.txt"}

\* mutant: the home directory is not treated as a project root
is_project_root_without_home(dir) ==
    \E name \in ROOT_FILES : exists(join(dir, <<name>>))

\* lines 36-42, the undecorated function
is_project_root(dir) ==
    IF dir = USER_HOME THEN TRUE
    ELSE \E name \in ROOT_FILES : exists(join(dir, <<name>>))

\* position of key in the cache, 0 when it has no entry
CacheIndex(c, key) ==
    IF \E i \in DOMAIN c : c[i].key = key
    THEN CHOOSE i \in DOMAIN c : c[i].key = key
    ELSE 0

Without(c, i) == SubSeq(c, 1, i - 1) \o SubSeq(c, i + 1, Len(c))

\* a hit makes the entry the most recently used one
CacheAfterHit(c, i) == Append(Without(c, i), c[i])

\* mutant: a full cache drops its most recently used entry
CacheAfterMissDropsNewest(c, key, value) ==
    Append(IF Len(c) >= maxsize THEN SubSeq(c, 1, Len(c) - 1) ELSE c,
           [key |-> key, value |-> value])

\* a miss stores the new entry, dropping the least recently used one of a full cache
CacheAfterMiss(c, key, value) ==
    Append(IF Len(c) >= maxsize THEN Tail(c) ELSE c,
           [key |-> key, value |-> value])

\* line 35: a call of the decorated function: [value, hit, cache]
CachedIsProjectRoot(key) ==
    LET i == CacheIndex(cache, key)
    IN IF i # 0
       THEN [value |-> cache[i].value, hit |-> TRUE,
             cache |-> CacheAfterHit(cache, i)]
       ELSE LET value == is_project_root(key)
            IN [value |-> value, hit |-> FALSE,
                cache |-> CacheAfterMiss(cache, key, value)]

Record(key, call) ==
    /\ cache' = call.cache
    /\ lastCall' = [key |-> key, value |-> call.value, hit |-> call.hit,
                    evicted |-> ~call.hit /\ Len(cache) >= maxsize,
                    valid |-> TRUE]

\* a call of is_project_root from anywhere in the process
IsProjectRootHit(key) ==
    /\ CacheIndex(cache, key) # 0
    /\ Record(key, CachedIsProjectRoot(key))
    /\ UNCHANGED <<envVars, resolverVars, walkVars>>

IsProjectRootMiss(key) ==
    /\ CacheIndex(cache, key) = 0
    /\ Record(key, CachedIsProjectRoot(key))
    /\ UNCHANGED <<envVars, resolverVars, walkVars>>

-----------------------------------------------------------------------------
(* _find_venv: the upward walk *)

\* line 57
python_exe == IF platform # "windows" THEN "python" ELSE "python.exe"

\* lines 148-150, venv_name = "venv"
venv_path(dir) ==
    LET path == join(dir, <<"venv", "bin", python_exe>>)
    IN IF exists(path) THEN Some(path) ELSE None

WalkDone(value) ==
    /\ venv' = value
    /\ walkPc' = "done"

\* lines 153-155.  os.path.lexists differs from exists only for broken
\* symbolic links, which the modelled filesystems do not hold.
FindVenv(dir) ==
    /\ walkPc = "idle"
    /\ start' = dir
    /\ root' = dir
    /\ IF ~exists(dir) THEN WalkDone(None)
       ELSE walkPc' = "loop" /\ UNCHANGED venv
    /\ UNCHANGED <<iters, envVars, resolverVars, cacheVars>>

\* lines 157-159
WalkFound ==
    /\ walkPc = "loop"
    /\ venv_path(root).some
    /\ WalkDone(venv_path(root))
    /\ iters' = iters + 1
    /\ UNCHANGED <<start, root, envVars, resolverVars, cacheVars>>

\* lines 160-161
WalkAtProjectRoot ==
    /\ walkPc = "loop"
    /\ ~venv_path(root).some
    /\ LET call == CachedIsProjectRoot(root)
       IN /\ call.value
          /\ Record(root, call)
    /\ WalkDone(None)
    /\ iters' = iters + 1
    /\ UNCHANGED <<start, root, envVars, resolverVars>>

\* mutant: the walk does not stop below the home directory
WalkUpIntoHome ==
    /\ walkPc = "loop"
    /\ ~venv_path(root).some
    /\ LET call == CachedIsProjectRoot(root)
           parent == dirname(root)
       IN /\ ~call.value
          /\ Record(root, call)
          /\ IF Len(parent) >= Len(root)
             THEN WalkDone(None) /\ UNCHANGED root
             ELSE root' = parent /\ UNCHANGED <<venv, walkPc>>
    /\ iters' = iters + 1
    /\ UNCHANGED <<start, envVars, resolverVars>>

\* lines 163-166
WalkUp ==
    /\ walkPc = "loop"
    /\ ~venv_path(root).some
    /\ LET call == CachedIsProjectRoot(root)
           parent == dirname(root)
       IN /\ ~call.value
          /\ Record(root, call)
          /\ IF Len(parent) >= Len(root) \/ parent = USER_HOME
             THEN WalkDone(None) /\ UNCHANGED root
             ELSE root' = parent /\ UNCHANGED <<venv, walkPc>>
    /\ iters' = iters + 1
    /\ UNCHANGED <<start, envVars, resolverVars>>

-----------------------------------------------------------------------------
(* Filesystem states the walk and the cache are run against *)

ChainFull == <<"home", "u", "p", "q", "r", "s">>
ChainDir(k) == SubSeq(ChainFull, 1, k)
ChainDirs == {ChainDir(k) : k \in 0..MaxDepth}

\* what a directory of the chain may hold: nothing, a venv of either platform,
\* root markers, or a venv next to a root marker
VenvPosix == <<"venv", "bin", "python">>
VenvWin == <<"venv", "bin", "python.exe">>
DirChoices ==
    { {}, {VenvPosix}, {VenvWin}, {<<".git">>},
      {<<"setup.py">>, <<"requirements.txt">>}, {<<".git">>, VenvPosix} }
MarkerChoices ==
    { {}, {<<".git">>}, {<<"setup.py">>, <<"requirements.txt">>} }

ChainFs(content) ==
    [files |-> UNION {{join(ChainDir(k), f) : f \in content[k]} : k \in 0..MaxDepth},
     dirs |-> ChainDirs,
     unreadable |-> {}]

ChainFsSet(choices) ==
    {ChainFs(content) : content \in
        {c \in [0..MaxDepth -> choices] :
            Cardinality({k \in 0..MaxDepth : c[k] # {}}) <= MaxMarked}}

HomeChoices == {<<"home">>, <<"elsewhere">>}

\* a path below a directory of the chain that does not exist
Missing(dir) == join(dir, <<"missing">>)

WalkStarts == ChainDirs \cup {Missing(d) : d \in ChainDirs}
CachePaths == ChainDirs \cup {Missing(ChainDir(1)), <<"elsewhere">>}

InitWalk ==
    /\ platform \in Platforms
    /\ fs \in ChainFsSet(DirChoices)
    /\ USER_HOME \in HomeChoices
    /\ ResolverIdle
    /\ WalkIdle
    /\ CacheEmpty

NextWalk ==
    \/ \E dir \in WalkStarts : FindVenv(dir)
    \/ WalkFound
    \/ WalkAtProjectRoot
    \/ WalkUp

SpecWalk == InitWalk /\ [][NextWalk]_vars

InitCache ==
    /\ platform = "linux"
    /\ fs \in ChainFsSet(MarkerChoices)
    /\ USER_HOME \in HomeChoices
    /\ ResolverIdle
    /\ WalkIdle
    /\ CacheEmpty

NextCache ==
    \/ \E key \in CachePaths : IsProjectRootHit(key)
    \/ \E key \in CachePaths : IsProjectRootMiss(key)

SpecCache == InitCache /\ [][NextCache]_vars

-----------------------------------------------------------------------------
(* Properties of resolve_python_path_from_venv (specification Spec) *)

\* the call is between its entry and its return or raise
InCall == pc \in {"override", "folders", "rules", "subfolder", "listdir",
                  "returned", "raised"}

\* the python.pythonPath setting holds a non-empty string
ExplicitOverride == settings.some /\ settings.val # <<>>

FirstFolder == workspace_folders[1]

PlatformBin == IF platform = "windows" THEN BinWin ELSE BinPosix

\* child is a direct child of the first folder holding pyvenv.cfg and the binary
ValidVenvChild(child) ==
    /\ FirstFolder \o <<child>> \o Cfg \in fs.files
    /\ FirstFolder \o <<child>> \o PlatformBin \in fs.files

VenvBinary(child) == Some(FirstFolder \o <<child>> \o PlatformBin)

\* names directly below the first folder
ChildNames ==
    {q[Len(FirstFolder) + 1] :
        q \in {f \in fs.files : /\ Len(f) > Len(FirstFolder)
                                /\ SubSeq(f, 1, Len(FirstFolder)) = FirstFolder}}

RuleOrder == <<"Pipfile", "poetry.lock", ".python-version">>
Pos(config_file) == CHOOSE k \in DOMAIN RuleOrder : RuleOrder[k] = config_file
MarkerExists(k) == FirstFolder \o <<RuleOrder[k]>> \in fs.files
Failing == {"FileNotFoundError", "CalledProcessError"}
LastRun == runs[Len(runs)]

\* C1: with a non-empty python.pythonPath the call returns exactly that value,
\* whatever the folders and the filesystem hold, and it does so before any
\* marker-file check, external command, warning or directory listing.
C1_OverrideWins ==
    (InCall /\ ExplicitOverride) =>
        /\ pc \in {"override", "returned"}
        /\ ~fsQueried
        /\ runs = <<>>
        /\ log = <<>>
        /\ ~searched
        /\ pc = "returned" => result = settings

C1_Witness ==
    /\ pc = "returned"
    /\ ExplicitOverride
    /\ workspace_folders # <<>>
    /\ FirstFolder = W1
    /\ MarkerExists(1)
    /\ ValidVenvChild("venv")

\* C2 (as claimed): a successful command whose postprocessing yields absent is
\* followed by the next rule, not by the end of the resolution with absent.
C2_PostprocessingFallsThrough ==
    \A i \in DOMAIN runs :
        ( /\ runs[i].outcome = "ok"
          /\ runs[i].config_file = "poetry.lock"
          /\ strip(runs[i].stdout) \o PlatformBin \notin fs.files )
        => \/ pc = "rules" /\ ruleIdx > Pos(runs[i].config_file)
           \/ i < Len(runs)
           \/ searched

\* C3: a command that is missing or exits nonzero leaves a warning and the
\* cascade goes on with the next rule in the order Pipfile, poetry.lock,
\* .python-version; after the last failure the conventional search is entered.
C3_FailedCommandContinues ==
    /\ \A i \in DOMAIN runs :
         runs[i].outcome \in Failing =>
            \E j \in DOMAIN log :
               log[j] = [config_file |-> runs[i].config_file,
                         warning |-> runs[i].outcome]
    /\ \A i, j \in DOMAIN runs :
         i < j => Pos(runs[i].config_file) < Pos(runs[j].config_file)
    /\ (runs # <<>> /\ LastRun.outcome \in Failing) =>
         LET k == Pos(LastRun.config_file)
         IN \/ /\ pc = "rules"
               /\ ruleIdx \in (k + 1)..Len(RuleOrder)
               /\ \A m \in (k + 1)..(ruleIdx - 1) : ~MarkerExists(m)
            \/ /\ pc = "subfolder"
               /\ \A m \in (k + 1)..Len(RuleOrder) : ~MarkerExists(m)
            \/ /\ pc \in {"listdir", "returned", "raised", "done"}
               /\ searched
               /\ \A m \in (k + 1)..Len(RuleOrder) : ~MarkerExists(m)

C3_Witness ==
    /\ pc = "returned"
    /\ searched
    /\ Len(runs) = 3
    /\ Len(log) = 3
    /\ \A i \in DOMAIN runs : runs[i].outcome \in Failing
    /\ result.some

\* C4 (as claimed): the call never raises to its caller.
C4_NeverRaises == pc # "raised"

\* C5 (as claimed): once the conventional search is entered the call returns
\* the binary of a valid venv child, venv before .venv before any other child,
\* and returns absent exactly when no direct child is a valid venv.
C5_ConventionalSearch ==
    (searched /\ pc \in {"returned", "raised"}) =>
        LET valid == {c \in ChildNames : ValidVenvChild(c)}
        IN /\ pc = "returned"
           /\ IF "venv" \in valid THEN result = VenvBinary("venv")
              ELSE IF ".venv" \in valid THEN result = VenvBinary(".venv")
              ELSE IF valid # {} THEN result \in {VenvBinary(c) : c \in valid}
              ELSE result = None

\* C10: a command is run only for a rule whose marker file exists in the first
\* folder, at most once per rule, never after a command has succeeded; with an
\* override or without folders none is run, and without folders and override
\* the result is absent.
C10_CommandsBounded ==
    /\ \A i \in DOMAIN runs :
         /\ workspace_folders # <<>>
         /\ FirstFolder \o <<runs[i].config_file>> \in fs.files
    /\ \A i, j \in DOMAIN runs :
         i # j => runs[i].config_file # runs[j].config_file
    /\ \A i \in DOMAIN runs : runs[i].outcome = "ok" => i = Len(runs)
    /\ (InCall /\ (ExplicitOverride \/ workspace_folders = <<>>)) => runs = <<>>
    /\ (pc = "returned" /\ ~ExplicitOverride /\ workspace_folders = <<>>) =>
         result = None

C10_Witness ==
    /\ pc = "returned"
    /\ Len(runs) = 2
    /\ runs[1].outcome \in Failing
    /\ runs[2].outcome = "ok"
    /\ MarkerExists(3)

-----------------------------------------------------------------------------
(* Properties of is_project_root (specification SpecCache) *)

OnDisk(path) == path \in fs.files \cup fs.dirs

\* dir is the home directory or holds one of the marker names
IsRootDir(dir) ==
    \/ dir = USER_HOME
    \/ \E name \in ROOT_FILES : OnDisk(dir \o <<name>>)

\* C6: is_project_root(p) is true exactly when p is the home directory or a
\* name of ROOT_FILES exists directly in p; a path that does not exist and is
\* not the home directory yields false.
C6_ProjectRoot ==
    lastCall.valid =>
        /\ lastCall.value = IsRootDir(lastCall.key)
        /\ (~OnDisk(lastCall.key) /\ lastCall.key # USER_HOME) => ~lastCall.value

C6_Witness ==
    /\ lastCall.valid
    /\ lastCall.value
    /\ lastCall.key # USER_HOME
    /\ lastCall.hit

Entries(c) == {c[i] : i \in DOMAIN c}

-----------------------------------------------------------------------------
(* Properties of _find_venv (specification SpecWalk) *)

\* the directory k levels above the start path
Anc(k) == SubSeq(start, 1, Len(start) - k)
Levels == 0..Len(start)

VenvFile(dir) ==
    dir \o <<"venv", "bin", IF platform = "windows" THEN "python.exe" ELSE "python">>
HasVenv(dir) == OnDisk(VenvFile(dir))

\* no directory strictly below level k holds a venv or is a project root
Clear(k) == \A j \in 0..(k - 1) : ~HasVenv(Anc(j)) /\ ~IsRootDir(Anc(j))

\* C7 (as claimed, read for a start path that exists): the walk returns the
\* venv of the nearest directory of the chain that has one, provided no
\* directory below it is a project root; it returns absent when a project root
\* without venv comes first; it never returns a venv above a project root or
\* above the first venv.
C7_NearestVenv ==
    (walkPc = "done" /\ OnDisk(start)) =>
        /\ \A k \in Levels :
             (HasVenv(Anc(k)) /\ Clear(k)) => venv = Some(VenvFile(Anc(k)))
        /\ (\E k \in Levels : IsRootDir(Anc(k)) /\ ~HasVenv(Anc(k)) /\ Clear(k))
             => venv = None
        /\ venv.some =>
             \E k \in Levels : venv.val = VenvFile(Anc(k)) /\ Clear(k)

\* C7 (amended): as C7, for a start path that exists and a directory that is
\* the start path itself or is not the home directory; the walk never returns
\* the venv of a home directory it would reach from below.
C7_NearestVenvBelowHome ==
    walkPc = "done" =>
        /\ \A k \in Levels :
             ( /\ HasVenv(Anc(k)) /\ Clear(k)
               /\ OnDisk(start)
               /\ (k = 0 \/ Anc(k) # USER_HOME) )
             => venv = Some(VenvFile(Anc(k)))
        /\ (\E k \in Levels : IsRootDir(Anc(k)) /\ ~HasVenv(Anc(k)) /\ Clear(k))
             => venv = None
        /\ venv.some =>
             \E k \in Levels :
                /\ venv.val = VenvFile(Anc(k))
                /\ Clear(k)
                /\ (k = 0 \/ Anc(k) # USER_HOME)

C7_Witness ==
    /\ walkPc = "done"
    /\ venv.some
    /\ venv.val = VenvFile(Anc(2))
    /\ iters = 3

\* the start path lies below the home directory and no directory from it up
\* to, not including, the home directory holds a venv or a root marker
NestedBelowHome ==
    /\ OnDisk(start)
    /\ Len(start) > Len(USER_HOME)
    /\ SubSeq(start, 1, Len(USER_HOME)) = USER_HOME
    /\ \A k \in 0..(Len(start) - Len(USER_HOME) - 1) :
         ~HasVenv(Anc(k)) /\ ~IsRootDir(Anc(k))

Parent(path) == SubSeq(path, 1, Len(path) - 1)

\* C8: the walk makes at most depth + 1 iterations and each one that goes on
\* shortens the path; a start path that does not exist gives absent at once;
\* an absent result otherwise comes from a project root, the filesystem root
\* or the directory just below the home directory; with nothing below the
\* home directory the walk ends there with absent.
C8_WalkTerminates ==
    /\ iters <= Len(start) + 1
    /\ walkPc = "loop" => iters = Len(start) - Len(root)
    /\ (walkPc = "done" /\ ~OnDisk(start)) => venv = None /\ iters = 0
    /\ (walkPc = "done" /\ OnDisk(start) /\ venv = None) =>
         \/ IsRootDir(root)
         \/ root = <<>>
         \/ Parent(root) = USER_HOME
    /\ (walkPc = "done" /\ NestedBelowHome) =>
         /\ venv = None
         /\ Parent(root) = USER_HOME
         /\ iters = Len(start) - Len(USER_HOME)

C8_Witness ==
    /\ walkPc = "done"
    /\ NestedBelowHome
    /\ Len(start) = Len(USER_HOME) + 2
    /\ iters = 2

=============================================================================
